---- MODULE Spec2Model ----
(***************************************************************************)
(* Model of the pooled MongoDB TLS proxy, src/api/index.js lines 1-819      *)
(* (the revision with connectionPools and the idle sweep).                  *)
(*                                                                         *)
(* Every request handler is an async function: it runs atomically from one *)
(* await to the next.  An action of the model is one such run: the code    *)
(* between two suspension points of one handler.  The backend (MongoClient)*)
(* is a black box: every awaited call settles with success or failure,     *)
(* chosen nondeterministically.                                            *)
(*                                                                         *)
(* Time is counted in units of 30 minutes, so that the idle threshold      *)
(* 30 * 60 * 1000 ms is 1 unit.  A run receives at most MaxRequests         *)
(* requests; sweeps and clock ticks are not counted.                       *)
(*                                                                         *)
(* Spec is the service under requests, the clock and the idle sweep.       *)
(* SpecShutdown is the service under requests and SIGINT, up to            *)
(* process.exit(0).                                                        *)
(* SpecCall is the calls of the synchronous code: the prefix of a handler  *)
(* up to its first await, the options of the backend calls, the answer to  *)
(* a find, the error classification, and parseQuery (both revisions of it, *)
(* lines 23-40 and lines 843-897).                                         *)
(***************************************************************************)
EXTENDS Naturals, Integers, FiniteSets, Sequences, TLC

\* ---- bounds ----
NumTasks   == 2      \* request handlers in flight at the same time
NumKeys    == 2      \* distinct connectionId values
MaxRequests == 3     \* requests received in one run
MaxTime    == 2      \* the clock stops advancing here

Tasks   == 1..NumTasks
Keys    == 1..NumKeys
Clients == 1..MaxRequests
Times   == 0..MaxTime

\* 0 stands for "none" where a client or a key is expected
NoPool == [client |-> 0, certFiles |-> {}, createdAt |-> 0, lastUsed |-> 0]
NoAnswer == [handler |-> "none", key |-> 0, status |-> 0, reused |-> FALSE]

\* no pure function is being called
NoCall == [fn |-> "none"]

\* certFiles of a pool: which of caFile / certFile it names (empty = null)
CertKinds == {"ca", "cert"}

VARIABLES
  connectionPools,  \* the Map: key -> pool record, NoPool when absent
  order,            \* insertion order of the keys present in the Map
  clientState,      \* client -> "unused" | "open" | "closed"
  clientKey,        \* client -> the connectionId it was opened for
  published,        \* clients that were stored in the Map by connectionPools.set
  replaces,         \* client -> the client of the stale pool whose failed ping led to it
  nClients,         \* number of backend connections opened so far
  files,            \* credential files on disk: <<key, kind>>
  now,              \* the clock
  nReq,             \* number of requests received so far
  pc, key,          \* per task: position in its handler, connectionId
  cl,               \* per task: the client the handler holds
  certs,            \* per task: the certFiles the handler holds
  ans,              \* the answer sent by the latest step, NoAnswer when it sent none
  rpc, rNow, rKey, rClient, rCerts, rIdx,  \* the idle sweep
  rTried,           \* clients whose close() the running sweep has called
  spc, sKey, sClient, sIdx,                \* the SIGINT handler
  arg, ret          \* a call of a pure function: its argument, what it returned

vars == <<connectionPools, order, clientState, clientKey, published, replaces,
          nClients, files, now, nReq, pc, key, cl, certs, ans,
          rpc, rNow, rKey, rClient, rCerts, rIdx, rTried,
          spc, sKey, sClient, sIdx, arg, ret>>

poolVars == <<connectionPools, order>>
clientVars == <<clientState, clientKey, published, replaces, nClients>>
taskVars == <<pc, key, cl, certs>>
sweepVars == <<rpc, rNow, rKey, rClient, rCerts, rTried>>
shutVars == <<spc, sKey, sClient>>
callVars == <<arg, ret>>

\* ---- the Map ----
has(k) == connectionPools[k] # NoPool

RECURSIVE IndexOf(_, _, _)
IndexOf(s, k, i) ==
  IF i > Len(s) THEN 0 ELSE IF s[i] = k THEN i ELSE IndexOf(s, k, i + 1)

RemoveAt(s, p) == [i \in 1..(Len(s) - 1) |-> IF i < p THEN s[i] ELSE s[i + 1]]

\* the cursor of a live Map iterator after the entry at position p is deleted
CursorAfterDelete(active, idx, p) ==
  IF active /\ p > 0 /\ p <= idx THEN idx - 1 ELSE idx

\* connectionPools.delete(k): by key, whatever object is stored there
MapDelete(k) ==
  LET p == IndexOf(order, k, 1) IN
  /\ connectionPools' = [connectionPools EXCEPT ![k] = NoPool]
  /\ order' = IF p = 0 THEN order ELSE RemoveAt(order, p)
  /\ rIdx' = CursorAfterDelete(rpc = "closing", rIdx, p)
  /\ sIdx' = CursorAfterDelete(spc = "closing", sIdx, p)

\* connectionPools.set(k, rec): an existing key keeps its position
MapSet(k, rec) ==
  /\ connectionPools' = [connectionPools EXCEPT ![k] = rec]
  /\ order' = IF has(k) THEN order ELSE Append(order, k)
  /\ UNCHANGED <<rIdx, sIdx>>

\* ---- handlers ----

\* a request arrives and a task that runs no handler takes it
Free(t) == pc[t] = "idle" /\ nReq < MaxRequests /\ nReq' = nReq + 1

\* a handler answers, res.status(code).json(...), and ends
Respond(t, h, k, code, isReuse) ==
  /\ pc' = [pc EXCEPT ![t] = "idle"]
  /\ key' = [key EXCEPT ![t] = 0]
  /\ cl' = [cl EXCEPT ![t] = 0]
  /\ certs' = [certs EXCEPT ![t] = {}]
  /\ ans' = [handler |-> h, key |-> k, status |-> code, reused |-> isReuse]

\* a handler suspends on an await
Suspend(t, k, at, c, cf) ==
  /\ pc' = [pc EXCEPT ![t] = at]
  /\ key' = [key EXCEPT ![t] = k]
  /\ cl' = [cl EXCEPT ![t] = c]
  /\ certs' = [certs EXCEPT ![t] = cf]
  /\ ans' = NoAnswer

\* ---- POST /connect (lines 233-350) ----

\* lines 269-290: the inline certificates are written to /tmp/ca_<id>.pem
\* and /tmp/cert_<id>.pem
WriteCerts(k, tls) == files \cup {<<k, x>> : x \in tls}

\* lines 269-312 up to the await of createMongoConnectionPool; stale is the
\* client of the pool whose ping just failed, 0 when the key was absent
WriteCertsAndOpen(t, k, tls, stale) ==
  /\ files' = WriteCerts(k, tls)
  /\ Suspend(t, k, "c_create", stale, tls)
  /\ UNCHANGED clientVars

\* lines 241-246: a missing field is answered with 400
ConnectInvalid(t, k) ==
  /\ Free(t)
  /\ Respond(t, "connect", k, 400, FALSE)
  /\ UNCHANGED <<poolVars, clientVars, files, now, sweepVars, shutVars, callVars, rIdx, sIdx>>

\* lines 249-254: the key is in the Map, ping the pool found there
ConnectProbe(t, k) ==
  /\ Free(t)
  /\ has(k)
  /\ Suspend(t, k, "c_probe", connectionPools[k].client, {})
  /\ UNCHANGED <<poolVars, clientVars, files, now, sweepVars, shutVars, callVars, rIdx, sIdx>>

\* lines 249, 269-312: the key is not in the Map
ConnectFresh(t, k, tls) ==
  /\ Free(t)
  /\ ~has(k)
  /\ WriteCertsAndOpen(t, k, tls, 0)
  /\ UNCHANGED <<poolVars, now, sweepVars, shutVars, callVars, rIdx, sIdx>>

\* a variant of ReuseExisting that counts the reuse as a use of the pool
ReuseExistingTouching(t) ==
  /\ Respond(t, "connect", key[t], 200, TRUE)
  /\ connectionPools' = IF has(key[t])
                          THEN [connectionPools EXCEPT ![key[t]].lastUsed = now]
                          ELSE connectionPools
  /\ UNCHANGED <<order, clientVars, files, rIdx, sIdx>>

\* lines 255-262: the ping of the existing pool succeeded
ReuseExisting(t) ==
  /\ Respond(t, "connect", key[t], 200, TRUE)
  /\ UNCHANGED <<poolVars, clientVars, files, rIdx, sIdx>>

ConnectReuse(t) ==
  /\ pc[t] = "c_probe"
  /\ ReuseExisting(t)
  /\ UNCHANGED <<now, nReq, sweepVars, shutVars, callVars>>

\* lines 263-266 then 269-312: the ping failed, the entry is deleted by key
\* (the pool is neither closed nor are its files removed) and a new pool
\* is created
ConnectStale(t, tls) ==
  /\ pc[t] = "c_probe"
  /\ MapDelete(key[t])
  /\ WriteCertsAndOpen(t, key[t], tls, cl[t])
  /\ UNCHANGED <<now, nReq, sweepVars, shutVars, callVars>>

\* the record stored by lines 315-321
NewPool(c, cf) ==
  [client |-> c, certFiles |-> cf, createdAt |-> now, lastUsed |-> now]

\* lines 162-163: the backend connection of a new MongoClient is open
OpenClient(k) ==
  /\ nClients' = nClients + 1
  /\ clientState' = [clientState EXCEPT ![nClients + 1] = "open"]
  /\ clientKey' = [clientKey EXCEPT ![nClients + 1] = k]

\* createMongoConnectionPool (lines 110-170) settles.
\*   "connect": client.connect() of line 163 throws, no connection is open;
\*   "ping":    the ping of line 166 throws, the open client is dropped
\*              without close();
\*   "ok":      lines 315-325, the pool is stored in the Map and then
\*              pinged once more.
\* The client is visible to nobody else before line 315, so the two awaits
\* of createMongoConnectionPool are one step.
ConnectCreated(t, outcome) ==
  /\ pc[t] = "c_create"
  /\ CASE outcome = "connect" ->
            /\ Respond(t, "connect", key[t], 500, FALSE)
            /\ UNCHANGED <<poolVars, clientVars, rIdx, sIdx>>
       [] outcome = "ping" ->
            /\ OpenClient(key[t])
            /\ Respond(t, "connect", key[t], 500, FALSE)
            /\ UNCHANGED <<poolVars, published, replaces, rIdx, sIdx>>
       [] outcome = "ok" ->
            /\ OpenClient(key[t])
            /\ MapSet(key[t], NewPool(nClients + 1, certs[t]))
            /\ published' = published \cup {nClients + 1}
            /\ replaces' = [replaces EXCEPT ![nClients + 1] = cl[t]]
            /\ Suspend(t, key[t], "c_test", nClients + 1, certs[t])
  /\ UNCHANGED <<files, now, nReq, sweepVars, shutVars, callVars>>

\* a variant of ConnectTested without the catch: a failed ping ends the
\* handler with no answer
ConnectTestedSilent(t, ok) ==
  /\ pc[t] = "c_test"
  /\ IF ok THEN Respond(t, "connect", key[t], 200, FALSE)
           ELSE /\ pc' = [pc EXCEPT ![t] = "idle"]
                /\ key' = [key EXCEPT ![t] = 0]
                /\ cl' = [cl EXCEPT ![t] = 0]
                /\ certs' = [certs EXCEPT ![t] = {}]
                /\ ans' = NoAnswer
  /\ UNCHANGED <<poolVars, clientVars, files, now, nReq, sweepVars, shutVars, callVars, rIdx, sIdx>>

\* line 325 settles: 200 (lines 328-338) or the catch of lines 340-349
ConnectTested(t, ok) ==
  /\ pc[t] = "c_test"
  /\ Respond(t, "connect", key[t], IF ok THEN 200 ELSE 500, FALSE)
  /\ UNCHANGED <<poolVars, clientVars, files, now, nReq, sweepVars, shutVars, callVars, rIdx, sIdx>>

\* ---- POST /query (lines 353-564) ----

\* lines 378-383
QueryInvalid(t, k) ==
  /\ Free(t)
  /\ Respond(t, "query", k, 400, FALSE)
  /\ UNCHANGED <<poolVars, clientVars, files, now, sweepVars, shutVars, callVars, rIdx, sIdx>>

\* a variant of QueryNotFound without the lookup test: the handler goes on
\* with an undefined pool and its catch answers 500
QueryNotFoundThrowing(t, k) ==
  /\ Free(t)
  /\ ~has(k)
  /\ Respond(t, "query", k, 500, FALSE)
  /\ UNCHANGED <<poolVars, clientVars, files, now, sweepVars, shutVars, callVars, rIdx, sIdx>>

\* lines 385-392
QueryNotFound(t, k) ==
  /\ Free(t)
  /\ ~has(k)
  /\ Respond(t, "query", k, 404, FALSE)
  /\ UNCHANGED <<poolVars, clientVars, files, now, sweepVars, shutVars, callVars, rIdx, sIdx>>

\* a variant of Touch that writes the other timestamp of the pool
TouchCreatedAt(k) == [connectionPools EXCEPT ![k].createdAt = now]

\* a variant of Touch that leaves lastUsed as it is
TouchSkipped(k) == connectionPools

\* line 395: connectionPool.lastUsed = new Date()
Touch(k) == [connectionPools EXCEPT ![k].lastUsed = now]

\* lines 385-507 up to the await of the backend call; paramsOk is false when
\* processQueryParameters or the switch throws before any backend call
QueryDispatch(t, k, paramsOk) ==
  /\ Free(t)
  /\ has(k)
  /\ connectionPools' = Touch(k)
  /\ IF paramsOk
       THEN Suspend(t, k, "q_op", connectionPools[k].client, {})
       ELSE Respond(t, "query", k, 500, FALSE)
  /\ UNCHANGED <<order, clientVars, files, now, sweepVars, shutVars, callVars, rIdx, sIdx>>

\* a variant of QuerySettled whose catch drops the pool of a failed call
QuerySettledEvicting(t, ok) ==
  /\ pc[t] = "q_op"
  /\ Respond(t, "query", key[t], IF ok THEN 200 ELSE 500, FALSE)
  /\ IF ok THEN UNCHANGED <<poolVars, rIdx, sIdx>> ELSE MapDelete(key[t])
  /\ UNCHANGED <<clientVars, files, now, nReq, sweepVars, shutVars, callVars>>

\* the backend call settles: lines 523-535 or the catch of lines 537-563
QuerySettled(t, ok) ==
  /\ pc[t] = "q_op"
  /\ Respond(t, "query", key[t], IF ok THEN 200 ELSE 500, FALSE)
  /\ UNCHANGED <<poolVars, clientVars, files, now, nReq, sweepVars, shutVars, callVars, rIdx, sIdx>>

\* ---- the requests in detail ----

\* the operation names of the switch of lines 421-507
Operations ==
  {"find", "findOne", "aggregate", "countDocuments", "insertOne", "insertMany",
   "updateOne", "updateMany", "deleteOne", "deleteMany"}

\* what a field of a request body can hold, as far as the handlers tell:
\* nothing (undefined, null, ""), an Array, a plain object, the JSON text of
\* an array, or a text that is not JSON
FieldKinds == {"absent", "array", "object", "text", "badtext"}

\* the body of a POST /connect; connectionId 0 is a missing connectionId
ConnectBodies ==
  [connectionId : Keys \cup {0}, mongoUrl : BOOLEAN, database : BOOLEAN,
   tls : SUBSET CertKinds]

\* the body of a POST /query; operation "" is a missing operation and
\* "mapReduce" stands for the names the switch does not know
QueryBodies ==
  [connectionId : Keys \cup {0}, collection : BOOLEAN,
   operation : Operations \cup {"", "mapReduce"},
   pipeline : FieldKinds, query : FieldKinds]

\* line 241
ConnectMissing(r) == r.connectionId = 0 \/ ~r.mongoUrl \/ ~r.database

\* line 378
QueryMissing(r) == r.connectionId = 0 \/ ~r.collection \/ r.operation = ""

\* lines 187-193: "pipeline || query || []"
ResolvedPipeline(r) ==
  IF r.pipeline # "absent" THEN r.pipeline
  ELSE IF r.query # "absent" THEN r.query
  ELSE "array"

\* a variant of ParamsThrow without the Array.isArray test of lines 454-456:
\* whatever was resolved is handed to coll.aggregate
ParamsThrowUnchecked(r) ==
  \/ r.operation = "aggregate" /\ r.pipeline = "absent" /\ r.query = "absent"
  \/ r.operation \notin Operations

\* a variant of ParamsThrow whose switch has no default branch: an unknown
\* operation runs through to the success answer
ParamsThrowNoDefault(r) ==
  \/ r.operation = "aggregate" /\ r.pipeline = "absent" /\ r.query = "absent"
  \/ r.operation = "aggregate" /\ ResolvedPipeline(r) # "array"

\* processQueryParameters throws for an aggregate with neither pipeline nor
\* query (lines 187-189); the switch throws for an aggregate whose pipeline
\* is not an Array (lines 454-456) and for an unknown operation (lines
\* 504-506).  All of these come before the backend call.
ParamsThrow(r) ==
  \/ r.operation = "aggregate" /\ r.pipeline = "absent" /\ r.query = "absent"
  \/ r.operation = "aggregate" /\ ResolvedPipeline(r) # "array"
  \/ r.operation \notin Operations

\* What a handler has done when it first suspends or answers, as a function
\* of the body and of whether the Map holds a pool under body.connectionId:
\* the status answered (0: none yet), the await it suspends on, whether it
\* set lastUsed, the credential files it wrote.
Entry(code, at, touch, cf) ==
  [status |-> code, awaits |-> at, touched |-> touch, wrote |-> cf]

\* POST /connect, lines 233-312 up to the first await
ConnectEntry(r, present) ==
  IF ConnectMissing(r) THEN Entry(400, "none", FALSE, {})
  ELSE IF present THEN Entry(0, "c_probe", FALSE, {})
  ELSE Entry(0, "c_create", FALSE, r.tls)

\* a variant of QueryEntry that looks the key up before it validates, as
\* the handler without validation does
QueryEntryLookupFirst(r, present) ==
  IF ~present THEN Entry(404, "none", FALSE, {})
  ELSE IF QueryMissing(r) THEN Entry(400, "none", FALSE, {})
  ELSE IF ParamsThrow(r) THEN Entry(500, "none", TRUE, {})
  ELSE Entry(0, "q_op", TRUE, {})

\* POST /query, lines 353-507 up to the first await
QueryEntry(r, present) ==
  IF QueryMissing(r) THEN Entry(400, "none", FALSE, {})
  ELSE IF ~present THEN Entry(404, "none", FALSE, {})
  ELSE IF ParamsThrow(r) THEN Entry(500, "none", TRUE, {})
  ELSE Entry(0, "q_op", TRUE, {})

\* Of the fields success and timestamp, those in the body that handler h
\* sends with status code.  Every body has success.  The 400 answers (lines
\* 242-245, 379-382), the 404 answers (lines 388-391, 573, 638-641, 711-714)
\* and all answers of debug-stores (lines 573, 610-623, 625) have no
\* timestamp.
ResponseFields(h, code) ==
  IF h # "debug-stores" /\ code \in {200, 500}
    THEN {"success", "timestamp"}
    ELSE {"success"}

\* the words the catch of POST /query looks for in error.message
ErrorWords == {"timeout", "connection", "authentication"}

\* an error message, as the set of those words it includes
ErrorMessages == SUBSET ErrorWords

\* lines 544-547: three ifs in a row, each overwrites errorType
errorType(m) ==
  LET t1 == IF "timeout" \in m THEN "timeout" ELSE "unknown"
      t2 == IF "connection" \in m THEN "connection" ELSE t1
      t3 == IF "authentication" \in m THEN "auth" ELSE t2
  IN t3

\* the keys of options the backend knows, and what a call holds under each:
\* nothing, the caller's value, or the value the handler writes
OptionKeys == {"limit", "maxTimeMS", "sort", "allowDiskUse"}
CallerOptions == [OptionKeys -> {"absent", "caller"}]

\* the options object handed to the backend call of operation op.  Lines
\* 424-427, 445-448, 467-470: {...options, maxTimeMS: n}; lines 457-461:
\* {...options, maxTimeMS: 90000, allowDiskUse: true}; the write operations
\* (lines 476-501) hand over processedParams.options itself.
BackendOptions(op, o) ==
  [k \in OptionKeys |->
     IF op \in {"find", "findOne", "countDocuments"} /\ k = "maxTimeMS"
       THEN "handler"
     ELSE IF op = "aggregate" /\ k \in {"maxTimeMS", "allowDiskUse"}
       THEN "handler"
     ELSE o[k]]

\* how the first backend call of a find settles
FindResults == {"fails", "empty", "documents"}

\* lines 424-441 and 523-563: the status answered to a find.  When the
\* result is empty a second call, coll.find({}).limit(3), is awaited inside
\* the same try; testOk is whether it succeeds.
FindAnswer(first, testOk) ==
  IF first = "fails" THEN 500
  ELSE IF first = "documents" THEN 200
  ELSE IF testOk THEN 200
  ELSE 500

\* ---- parseQuery ----

\* The strings a filter can hold, by what the code can tell of them:
\*   hex24        24 hexadecimal characters
\*   oidtext      the text ObjectId("<24 hex>")
\*   isodatetext  the text ISODate("<text>")
\*   iso          matches isoDatePattern (line 853) and is a valid instant
\*   badiso       matches isoDatePattern and is no valid instant
\*   plain        any other text; new ObjectId throws for it
StringKinds == {"hex24", "oidtext", "isodatetext", "iso", "badiso", "plain"}

Str(k) == [t |-> "str", k |-> k]
Obj(f) == [t |-> "obj", f |-> f]
Arr(s) == [t |-> "arr", s |-> s]
ObjectIdValue == [t |-> "ObjectId"]
DateValue == [t |-> "Date"]

\* the keys of the filters considered; "note" is not in the lists of lines
\* 27 and 872
FilterKeys == {"_id", "note"}
ObjectIdFields == {"_id"}

MaxLen == 1      \* length of the arrays in a filter

Leaves == {Str(k) : k \in StringKinds}
InnerObjects == {Obj(f) : f \in UNION {[{k} -> Leaves] : k \in FilterKeys}}
Arrays ==
  {Arr(s) : s \in UNION {[1..n -> Leaves \cup InnerObjects] : n \in 1..MaxLen}}
FilterValues == Leaves \cup InnerObjects \cup Arrays
Filters == {Obj(f) : f \in [FilterKeys -> FilterValues]}

\* lines 27-38 and 872-882, for one top-level field: a string of length 24
\* under a listed key goes to new ObjectId, which throws unless the string
\* is hexadecimal; the catch keeps the string
ToObjectId(k, v) ==
  IF k \in ObjectIdFields /\ v = Str("hex24") THEN ObjectIdValue ELSE v

\* lines 23-40: a shallow copy with the listed top-level fields converted.
\* Nothing is written to the input or to the objects it shares with the
\* copy.
parseQuery(q) ==
  [parsed |-> Obj([k \in DOMAIN q.f |-> ToObjectId(k, q.f[k])]),
   query  |-> q]

\* lines 846-869: what the object holds after convertDates(obj), which
\* writes into obj itself.  It descends into objects, passes arrays by
\* (line 848: !Array.isArray) and replaces a string by a Date when the
\* string matches the pattern and the Date is valid.
RECURSIVE convertDates(_)
convertDates(obj) ==
  Obj([k \in DOMAIN obj.f |->
         LET v == obj.f[k] IN
         IF v.t = "obj" THEN convertDates(v)
         ELSE IF v = Str("iso") THEN DateValue
         ELSE v])

\* lines 843-897.  parsed = {...query} copies the top level only: a nested
\* object is the same object in parsed and in query, so what convertDates
\* writes into it shows in the caller's query; what is assigned to a
\* top-level field of parsed does not.
parseQueryDates(q) ==
  [parsed |-> convertDates(Obj([k \in DOMAIN q.f |-> ToObjectId(k, q.f[k])])),
   query  |-> Obj([k \in DOMAIN q.f |->
                     IF q.f[k].t = "obj" THEN convertDates(q.f[k]) ELSE q.f[k]])]

\* ---- GET /collections/:connectionId (lines 630-700) ----

\* lines 636-643
CollectionsNotFound(t, k) ==
  /\ Free(t)
  /\ ~has(k)
  /\ Respond(t, "collections", k, 404, FALSE)
  /\ UNCHANGED <<poolVars, clientVars, files, now, sweepVars, shutVars, callVars, rIdx, sIdx>>

\* lines 636-649: the pool is found and touched, listCollections is awaited.
\* The awaits that follow (countDocuments, in batches) change nothing the
\* other handlers see, so the handler suspends once.
CollectionsDispatch(t, k) ==
  /\ Free(t)
  /\ has(k)
  /\ connectionPools' = Touch(k)
  /\ Suspend(t, k, "l_op", connectionPools[k].client, {})
  /\ UNCHANGED <<order, clientVars, files, now, sweepVars, shutVars, callVars, rIdx, sIdx>>

\* lines 684-698: 200, or the catch answers 500
CollectionsSettled(t, ok) ==
  /\ pc[t] = "l_op"
  /\ Respond(t, "collections", key[t], IF ok THEN 200 ELSE 500, FALSE)
  /\ UNCHANGED <<poolVars, clientVars, files, now, nReq, sweepVars, shutVars, callVars, rIdx, sIdx>>

\* ---- POST /debug-stores (lines 567-627) ----

\* lines 570-574
DebugNotFound(t, k) ==
  /\ Free(t)
  /\ ~has(k)
  /\ Respond(t, "debug-stores", k, 404, FALSE)
  /\ UNCHANGED <<poolVars, clientVars, files, now, sweepVars, shutVars, callVars, rIdx, sIdx>>

\* lines 570-583: the pool is found and touched, the first of six searches
\* is awaited
DebugDispatch(t, k) ==
  /\ Free(t)
  /\ has(k)
  /\ connectionPools' = Touch(k)
  /\ Suspend(t, k, "g_op", connectionPools[k].client, {})
  /\ UNCHANGED <<order, clientVars, files, now, sweepVars, shutVars, callVars, rIdx, sIdx>>

\* lines 612-626: 200, or the catch answers 500
DebugSettled(t, ok) ==
  /\ pc[t] = "g_op"
  /\ Respond(t, "debug-stores", key[t], IF ok THEN 200 ELSE 500, FALSE)
  /\ UNCHANGED <<poolVars, clientVars, files, now, nReq, sweepVars, shutVars, callVars, rIdx, sIdx>>

\* ---- credential files ----

\* "if (caFile) unlinkSync(caFile); if (certFile) unlinkSync(certFile)":
\* fs.unlinkSync throws when the file is not there.  The files left on disk,
\* and whether one of the calls threw.
UnlinkFiles(k, cf) ==
  IF "ca" \in cf /\ <<k, "ca">> \notin files
    THEN [files |-> files, threw |-> TRUE]
    ELSE LET f1 == IF "ca" \in cf THEN files \ {<<k, "ca">>} ELSE files IN
         IF "cert" \in cf /\ <<k, "cert">> \notin f1
           THEN [files |-> f1, threw |-> TRUE]
           ELSE [files |-> IF "cert" \in cf THEN f1 \ {<<k, "cert">>} ELSE f1,
                 threw |-> FALSE]

\* ---- DELETE /disconnect/:connectionId (lines 703-749) ----

\* a variant of DisconnectNotFound that removes the files named after the key
\* before it answers
DisconnectNotFoundCleaning(t, k) ==
  /\ Respond(t, "disconnect", k, 404, FALSE)
  /\ files' = files \ {<<k, x>> : x \in CertKinds}
  /\ UNCHANGED <<poolVars, clientVars, rIdx, sIdx>>

\* lines 709-715
DisconnectNotFound(t, k) ==
  /\ Respond(t, "disconnect", k, 404, FALSE)
  /\ UNCHANGED <<poolVars, clientVars, files, rIdx, sIdx>>

DisconnectAbsent(t, k) ==
  /\ Free(t)
  /\ ~has(k)
  /\ DisconnectNotFound(t, k)
  /\ UNCHANGED <<now, sweepVars, shutVars, callVars>>

\* lines 709-719: the pool is found, client.close() is awaited
DisconnectClose(t, k) ==
  /\ Free(t)
  /\ has(k)
  /\ Suspend(t, k, "d_close", connectionPools[k].client, connectionPools[k].certFiles)
  /\ UNCHANGED <<poolVars, clientVars, files, now, sweepVars, shutVars, callVars, rIdx, sIdx>>

\* lines 719-731, the teardown of the pool (client c, certFiles cf) found
\* under k, as a function of the outcome of close(): the clients, the files
\* and the Map it leaves
DisconnectTeardown(k, c, cf, ok) ==
  IF ok
    THEN [clientState |-> [clientState EXCEPT ![c] = "closed"],
          files |-> UnlinkFiles(k, cf).files,
          connectionPools |-> [connectionPools EXCEPT ![k] = NoPool]]
    ELSE [clientState |-> clientState, files |-> files,
          connectionPools |-> connectionPools]

\* close() settles.  Success: lines 721-738, the files are unlinked inside a
\* try/catch of their own and the entry is deleted by key.  Failure: the
\* catch of lines 740-748, nothing else is done.
DisconnectClosed(t, ok) ==
  /\ pc[t] = "d_close"
  /\ IF ok
       THEN /\ clientState' = [clientState EXCEPT ![cl[t]] = "closed"]
            /\ files' = UnlinkFiles(key[t], certs[t]).files
            /\ MapDelete(key[t])
            /\ Respond(t, "disconnect", key[t], 200, FALSE)
       ELSE /\ Respond(t, "disconnect", key[t], 500, FALSE)
            /\ UNCHANGED <<poolVars, clientState, files, rIdx, sIdx>>
  /\ UNCHANGED <<clientKey, published, replaces, nClients, now, nReq, sweepVars, shutVars, callVars>>

\* ---- the idle sweep (lines 752-777) ----

\* line 754: 30 * 60 * 1000 ms, one unit of the model's clock
maxIdleTime == 1

\* a variant of IsIdle that measures the age of the pool
IsIdleSinceCreated(pool, tnow) == tnow - pool.createdAt > maxIdleTime

\* lines 757-759
IsIdle(pool, tnow) == tnow - pool.lastUsed > maxIdleTime

\* the for-of loop runs without suspending until it meets an idle pool:
\* the position of the first idle entry at or after position i, 0 if none
RECURSIVE NextIdle(_, _, _, _)
NextIdle(pools, ord, i, tnow) ==
  IF i > Len(ord) THEN 0
  ELSE IF IsIdle(pools[ord[i]], tnow) THEN i
  ELSE NextIdle(pools, ord, i + 1, tnow)

\* the sweep suspends on pool.client.close() of the entry at position j,
\* or ends when j = 0
SweepGoto(pools, ord, j, tnow) ==
  IF j = 0
    THEN /\ rpc' = "idle" /\ rNow' = 0 /\ rKey' = 0 /\ rClient' = 0
         /\ rCerts' = {} /\ rIdx' = 0 /\ rTried' = {}
    ELSE /\ rpc' = "closing"
         /\ rTried' = rTried \cup {pools[ord[j]].client}
         /\ rNow' = tnow
         /\ rKey' = ord[j]
         /\ rClient' = pools[ord[j]].client
         /\ rCerts' = pools[ord[j]].certFiles
         /\ rIdx' = j

\* lines 753-763: the timer fires; now is read once for the whole sweep
SweepStart ==
  /\ rpc = "idle"
  /\ NextIdle(connectionPools, order, 1, now) # 0
  /\ SweepGoto(connectionPools, order, NextIdle(connectionPools, order, 1, now), now)
  /\ ans' = NoAnswer
  /\ UNCHANGED <<poolVars, clientVars, files, now, nReq, taskVars, shutVars, callVars, sIdx>>

\* lines 763-774 for one entry: whether connectionPools.delete is reached.
\* A throw of close() or of unlinkSync goes to the catch, which only logs.
SweepDeletes(ok, threw) == ok /\ ~threw

\* a variant of SweepClosed whose catch leaves the loop
SweepClosedAborting(ok) ==
  /\ rpc = "closing"
  /\ LET u     == UnlinkFiles(rKey, rCerts)
         del   == SweepDeletes(ok, u.threw)
         p     == IndexOf(order, rKey, 1)
         pools == IF del THEN [connectionPools EXCEPT ![rKey] = NoPool]
                         ELSE connectionPools
         ord   == IF del /\ p # 0 THEN RemoveAt(order, p) ELSE order
         idx   == IF del THEN CursorAfterDelete(TRUE, rIdx, p) ELSE rIdx
         nxt   == IF del THEN NextIdle(pools, ord, idx + 1, rNow) ELSE 0
     IN /\ clientState' = IF ok THEN [clientState EXCEPT ![rClient] = "closed"]
                                ELSE clientState
        /\ files' = IF ok THEN u.files ELSE files
        /\ connectionPools' = pools
        /\ order' = ord
        /\ sIdx' = IF del THEN CursorAfterDelete(spc = "closing", sIdx, p) ELSE sIdx
        /\ SweepGoto(pools, ord, nxt, rNow)
  /\ ans' = NoAnswer
  /\ UNCHANGED <<clientKey, published, replaces, nClients, now, nReq, taskVars,
                 shutVars, callVars>>

\* close() settles for the entry the sweep is suspended on, then the loop
\* goes on to the next idle entry
SweepClosed(ok) ==
  /\ rpc = "closing"
  /\ LET u     == UnlinkFiles(rKey, rCerts)
         del   == SweepDeletes(ok, u.threw)
         p     == IndexOf(order, rKey, 1)
         pools == IF del THEN [connectionPools EXCEPT ![rKey] = NoPool]
                         ELSE connectionPools
         ord   == IF del /\ p # 0 THEN RemoveAt(order, p) ELSE order
         idx   == IF del THEN CursorAfterDelete(TRUE, rIdx, p) ELSE rIdx
     IN /\ clientState' = IF ok THEN [clientState EXCEPT ![rClient] = "closed"]
                                ELSE clientState
        /\ files' = IF ok THEN u.files ELSE files
        /\ connectionPools' = pools
        /\ order' = ord
        /\ sIdx' = IF del THEN CursorAfterDelete(spc = "closing", sIdx, p) ELSE sIdx
        /\ SweepGoto(pools, ord, NextIdle(pools, ord, idx + 1, rNow), rNow)
  /\ ans' = NoAnswer
  /\ UNCHANGED <<clientKey, published, replaces, nClients, now, nReq, taskVars,
                 shutVars, callVars>>

\* ---- process.on('SIGINT') (lines 803-816) ----

\* nothing runs after process.exit(0)
Running == spc # "exited"

\* the for-of loop over connectionPools.entries() suspends on
\* pool.client.close() of the entry at position j; past the last entry it
\* reaches process.exit(0)
ShutdownGoto(j) ==
  IF j > Len(order)
    THEN spc' = "exited" /\ sKey' = 0 /\ sClient' = 0 /\ sIdx' = 0
    ELSE /\ spc' = "closing"
         /\ sKey' = order[j]
         /\ sClient' = connectionPools[order[j]].client
         /\ sIdx' = j

\* the signal arrives; the handlers in flight go on while the loop awaits
ShutdownStart ==
  /\ spc = "running"
  /\ ShutdownGoto(1)
  /\ ans' = NoAnswer
  /\ UNCHANGED <<poolVars, clientVars, files, now, nReq, taskVars, sweepVars, rIdx,
                 callVars>>

\* close() settles; a throw is caught and logged (lines 809-811).  No
\* credential file is unlinked and no entry is deleted.
ShutdownClosed(ok) ==
  /\ spc = "closing"
  /\ clientState' = IF ok THEN [clientState EXCEPT ![sClient] = "closed"]
                          ELSE clientState
  /\ ShutdownGoto(sIdx + 1)
  /\ ans' = NoAnswer
  /\ UNCHANGED <<poolVars, clientKey, published, replaces, nClients, files, now,
                 nReq, taskVars, sweepVars, rIdx, callVars>>

\* ---- the clock ----
Tick ==
  /\ now < MaxTime
  /\ now' = now + 1
  /\ ans' = NoAnswer
  /\ UNCHANGED <<poolVars, clientVars, files, nReq, taskVars, sweepVars, shutVars, callVars, rIdx, sIdx>>

\* ---- the system ----
Init ==
  /\ connectionPools = [k \in Keys |-> NoPool]
  /\ order = <<>>
  /\ clientState = [c \in Clients |-> "unused"]
  /\ clientKey = [c \in Clients |-> 0]
  /\ published = {}
  /\ replaces = [c \in Clients |-> 0]
  /\ nClients = 0
  /\ files = {}
  /\ now = 0
  /\ nReq = 0
  /\ pc = [t \in Tasks |-> "idle"]
  /\ key = [t \in Tasks |-> 0]
  /\ cl = [t \in Tasks |-> 0]
  /\ certs = [t \in Tasks |-> {}]
  /\ ans = NoAnswer
  /\ rpc = "idle" /\ rNow = 0 /\ rKey = 0 /\ rClient = 0
  /\ rCerts = {} /\ rIdx = 0 /\ rTried = {}
  /\ spc = "running" /\ sKey = 0 /\ sClient = 0 /\ sIdx = 0
  /\ arg = NoCall /\ ret = NoCall

Next ==
  \/ \E t \in Tasks, k \in Keys : ConnectInvalid(t, k)
  \/ \E t \in Tasks, k \in Keys : ConnectProbe(t, k)
  \/ \E t \in Tasks, k \in Keys, tls \in SUBSET CertKinds : ConnectFresh(t, k, tls)
  \/ \E t \in Tasks : ConnectReuse(t)
  \/ \E t \in Tasks, tls \in SUBSET CertKinds : ConnectStale(t, tls)
  \/ \E t \in Tasks, outcome \in {"connect", "ping", "ok"} : ConnectCreated(t, outcome)
  \/ \E t \in Tasks, ok \in BOOLEAN : ConnectTested(t, ok)
  \/ \E t \in Tasks, k \in Keys : QueryInvalid(t, k)
  \/ \E t \in Tasks, k \in Keys : QueryNotFound(t, k)
  \/ \E t \in Tasks, k \in Keys, ok \in BOOLEAN : QueryDispatch(t, k, ok)
  \/ \E t \in Tasks, ok \in BOOLEAN : QuerySettled(t, ok)
  \/ \E t \in Tasks, k \in Keys : CollectionsNotFound(t, k)
  \/ \E t \in Tasks, k \in Keys : CollectionsDispatch(t, k)
  \/ \E t \in Tasks, ok \in BOOLEAN : CollectionsSettled(t, ok)
  \/ \E t \in Tasks, k \in Keys : DebugNotFound(t, k)
  \/ \E t \in Tasks, k \in Keys : DebugDispatch(t, k)
  \/ \E t \in Tasks, ok \in BOOLEAN : DebugSettled(t, ok)
  \/ \E t \in Tasks, k \in Keys : DisconnectAbsent(t, k)
  \/ \E t \in Tasks, k \in Keys : DisconnectClose(t, k)
  \/ \E t \in Tasks, ok \in BOOLEAN : DisconnectClosed(t, ok)
  \/ SweepStart
  \/ \E ok \in BOOLEAN : SweepClosed(ok)
  \/ Tick

Spec == Init /\ [][Next]_vars

\* The service with the SIGINT handler: requests are handled until
\* process.exit(0).  The clock stands still, so the idle sweep finds nothing.
NextShutdown ==
  \/ \E t \in Tasks, k \in Keys : Running /\ ConnectInvalid(t, k)
  \/ \E t \in Tasks, k \in Keys : Running /\ ConnectProbe(t, k)
  \/ \E t \in Tasks, k \in Keys, tls \in SUBSET CertKinds :
        Running /\ ConnectFresh(t, k, tls)
  \/ \E t \in Tasks : Running /\ ConnectReuse(t)
  \/ \E t \in Tasks, tls \in SUBSET CertKinds : Running /\ ConnectStale(t, tls)
  \/ \E t \in Tasks, outcome \in {"connect", "ping", "ok"} :
        Running /\ ConnectCreated(t, outcome)
  \/ \E t \in Tasks, ok \in BOOLEAN : Running /\ ConnectTested(t, ok)
  \/ \E t \in Tasks, k \in Keys : Running /\ QueryNotFound(t, k)
  \/ \E t \in Tasks, k \in Keys, ok \in BOOLEAN : Running /\ QueryDispatch(t, k, ok)
  \/ \E t \in Tasks, ok \in BOOLEAN : Running /\ QuerySettled(t, ok)
  \/ \E t \in Tasks, k \in Keys : Running /\ DisconnectAbsent(t, k)
  \/ \E t \in Tasks, k \in Keys : Running /\ DisconnectClose(t, k)
  \/ \E t \in Tasks, ok \in BOOLEAN : Running /\ DisconnectClosed(t, ok)
  \/ ShutdownStart
  \/ \E ok \in BOOLEAN : ShutdownClosed(ok)

SpecShutdown == Init /\ [][NextShutdown]_vars

\* ---- calls of the synchronous functions ----

\* the calls considered: a function and its arguments
CallArgs ==
  {[fn |-> "ConnectEntry", body |-> r, present |-> p] :
      r \in ConnectBodies, p \in BOOLEAN}
    \cup {[fn |-> "QueryEntry", body |-> r, present |-> p] :
      r \in QueryBodies, p \in BOOLEAN}
    \cup {[fn |-> "errorType", message |-> m] : m \in ErrorMessages}
    \cup {[fn |-> "BackendOptions", operation |-> op, options |-> o] :
            op \in Operations, o \in CallerOptions}
    \cup {[fn |-> "FindAnswer", first |-> f, testOk |-> b] :
            f \in FindResults, b \in BOOLEAN}
    \cup {[fn |-> f, query |-> q] :
            f \in {"parseQuery", "parseQueryDates"}, q \in Filters}

InitCall ==
  /\ connectionPools = [k \in Keys |-> NoPool]
  /\ order = <<>>
  /\ clientState = [c \in Clients |-> "unused"]
  /\ clientKey = [c \in Clients |-> 0]
  /\ published = {}
  /\ replaces = [c \in Clients |-> 0]
  /\ nClients = 0
  /\ files = {}
  /\ now = 0
  /\ nReq = 0
  /\ pc = [t \in Tasks |-> "idle"]
  /\ key = [t \in Tasks |-> 0]
  /\ cl = [t \in Tasks |-> 0]
  /\ certs = [t \in Tasks |-> {}]
  /\ ans = NoAnswer
  /\ rpc = "idle" /\ rNow = 0 /\ rKey = 0 /\ rClient = 0
  /\ rCerts = {} /\ rIdx = 0 /\ rTried = {}
  /\ spc = "running" /\ sKey = 0 /\ sClient = 0 /\ sIdx = 0
  /\ arg \in CallArgs
  /\ ret = NoCall

\* the function returns v
Returns(v) ==
  /\ ret = NoCall
  /\ ret' = [fn |-> arg.fn, val |-> v]
  /\ UNCHANGED <<poolVars, clientVars, files, now, nReq, taskVars, ans, sweepVars,
                 rIdx, shutVars, sIdx, arg>>

CallConnectEntry ==
  arg.fn = "ConnectEntry" /\ Returns(ConnectEntry(arg.body, arg.present))

CallQueryEntry ==
  arg.fn = "QueryEntry" /\ Returns(QueryEntry(arg.body, arg.present))

CallErrorType ==
  arg.fn = "errorType" /\ Returns(errorType(arg.message))

CallParseQuery ==
  arg.fn = "parseQuery" /\ Returns(parseQuery(arg.query))

CallParseQueryDates ==
  arg.fn = "parseQueryDates" /\ Returns(parseQueryDates(arg.query))

CallBackendOptions ==
  arg.fn = "BackendOptions" /\ Returns(BackendOptions(arg.operation, arg.options))

CallFindAnswer ==
  arg.fn = "FindAnswer" /\ Returns(FindAnswer(arg.first, arg.testOk))

NextCall ==
  \/ CallBackendOptions
  \/ CallFindAnswer
  \/ CallConnectEntry
  \/ CallQueryEntry
  \/ CallErrorType
  \/ CallParseQuery
  \/ CallParseQueryDates

\* every call of CallArgs, made once
SpecCall == InitCall /\ [][NextCall]_vars

TypeOK ==
  /\ nClients \in 0..MaxRequests /\ nReq \in 0..MaxRequests
  /\ now \in Times
  /\ \A k \in Keys : has(k) <=> (IndexOf(order, k, 1) # 0)
  /\ ans.status \in {0, 200, 400, 404, 500}
  /\ spc \in {"running", "closing", "exited"}
  /\ sIdx <= Len(order)


\* ======================================================================
\* Properties
\* ======================================================================

\* the client of the pool stored under k
ClientOf(k) == connectionPools[k].client

\* a Session: a pool that connectionPools.set stored, whose backend
\* connection is open and that no connect has replaced as stale
Replaced(c) == \E d \in Clients : replaces[d] = c
AliveSessions(k) ==
  {c \in published : clientKey[c] = k /\ clientState[c] = "open" /\ ~Replaced(c)}

\* C1: at most one Session per key exists at any time: never two Sessions,
\* each with its own open backend connection, created for the same key and
\* alive together.
C1_OneSessionPerKey == \A k \in Keys : Cardinality(AliveSessions(k)) <= 1

\* the step in which task t answers "reused"
C2_ReuseStep(t) == pc[t] = "c_probe" /\ pc'[t] = "idle" /\ ans'.reused

\* C2: a connect that finds a pool under its key and whose ping of it
\* succeeds answers 200 "reused", opens no backend connection, writes no
\* credential file and leaves the Map as it is.
C2_ReuseChangesNothing ==
  [][\A t \in Tasks : C2_ReuseStep(t) =>
        /\ ans' = [handler |-> "connect", key |-> key[t], status |-> 200,
                   reused |-> TRUE]
        /\ UNCHANGED <<connectionPools, order, clientState, nClients, files>>]_vars

\* C2 witness: the second connect on a key was answered "reused" and the
\* pool of the first is still the one in the Map, the only client opened.
C2_Witness ==
  /\ ans.reused /\ ans.status = 200
  /\ has(ans.key) /\ ClientOf(ans.key) = 1 /\ nClients = 1

\* C3: a stale pool is replaced exactly once: whatever the interleaving of
\* connects on the key, one replacement connection is opened and stored.
C3_ReplacedOnce ==
  \A c \in Clients : Cardinality({d \in Clients : replaces[d] = c}) <= 1

\* C4: a pool is in the Map only after its connect passed the last ping:
\* no handler can find the pool of a connect that still awaits that ping.
C4_PublishedAfterLastProbe ==
  \A t \in Tasks : pc[t] = "c_test" => ClientOf(key[t]) # cl[t]

\* the step in which the connect of task t answers 500
C5_FailStep(t) ==
  pc[t] \in {"c_create", "c_test"} /\ pc'[t] = "idle" /\ ans'.status = 500

\* C5: a connect that fails leaves no pool of its own in the Map and has
\* removed every credential file it wrote by the time it answers.
C5_FailedConnectCleansUp ==
  [][\A t \in Tasks : C5_FailStep(t) =>
        /\ \A x \in certs[t] : <<key[t], x>> \notin files'
        /\ (pc[t] = "c_test" => connectionPools'[key[t]].client # cl[t])]_vars

\* C6: when a disconnect of a key that was in the Map completes, the key
\* is not in the Map, also when close() failed.
C6_DisconnectRemoves ==
  [][\A t \in Tasks : (pc[t] = "d_close" /\ pc'[t] = "idle") =>
        connectionPools'[key[t]] = NoPool]_vars

\* the step in which a disconnect request for a key not in the Map is
\* received and answered
C7_AbsentStep == nReq' # nReq /\ ans'.handler = "disconnect" /\ ~has(ans'.key)

\* C7: a disconnect of a key that is not in the Map answers 404, closes no
\* backend connection, deletes no credential file and leaves the Map as it is.
C7_DisconnectAbsentChangesNothing ==
  [][C7_AbsentStep =>
        /\ ans'.status = 404
        /\ UNCHANGED <<connectionPools, order, clientState, files>>]_vars

\* C7 witness: a disconnect was answered 404 while another key has a pool
\* and the key asked for has credential files on disk.
C7_Witness ==
  /\ ans.handler = "disconnect" /\ ans.status = 404
  /\ ~has(ans.key)
  /\ \E k \in Keys : has(k)
  /\ \E x \in CertKinds : <<ans.key, x>> \in files

\* C8: an entry leaves the Map only after the backend connection of its
\* pool was closed and its credential files were deleted.
C8_RemovalAfterTeardown ==
  [][\A k \in Keys : (has(k) /\ connectionPools'[k] = NoPool) =>
        /\ clientState'[ClientOf(k)] = "closed"
        /\ \A x \in connectionPools[k].certFiles : <<k, x>> \notin files']_vars

\* C9: when a sweep has finished, no pool that is idle beyond the threshold
\* for that sweep is left in the Map, whatever close() and unlink did.
C9_SweepEvictsIdle ==
  [][(rpc = "closing" /\ rpc' = "idle") =>
        \A k \in Keys : connectionPools'[k] # NoPool =>
                          ~IsIdle(connectionPools'[k], rNow)]_vars

\* the step in which the sweep removes the pool it awaited the close() of
C10_SweepRemoves ==
  /\ rpc = "closing" /\ <<rpc', rKey'>> # <<rpc, rKey>>
  /\ has(rKey) /\ ClientOf(rKey) = rClient
  /\ connectionPools'[rKey] = NoPool

\* C10: the sweep never removes a pool that was used within the idle
\* threshold, also when the use happened while the sweep awaited close().
C10_TouchedNeverEvicted ==
  [][C10_SweepRemoves => IsIdle(connectionPools[rKey], now)]_vars

\* C11: a failure while the sweep tears down one idle pool does not stop
\* the sweep: when the sweep ends, close() was called in it on every pool
\* of the Map that is idle beyond the threshold for that sweep.
C11_SweepVisitsAllIdle ==
  [][(rpc = "closing" /\ rpc' = "idle") =>
        \A k \in Keys :
          (connectionPools'[k] # NoPool /\ IsIdle(connectionPools'[k], rNow))
            => connectionPools'[k].client \in rTried]_vars

\* C11 witness: the sweep awaits close() of a second idle pool after the
\* teardown of the first one failed and left it, open, in the Map.
C11_Witness ==
  /\ rpc = "closing"
  /\ \E k \in Keys :
       /\ has(k) /\ k # rKey /\ ClientOf(k) \in rTried
       /\ clientState[ClientOf(k)] = "open"
       /\ IsIdle(connectionPools[k], rNow)

\* C12: the sweep's eviction of a pool is the teardown of disconnect: for
\* the same pool and the same outcomes of close() and of each unlinkSync,
\* it leaves the same clients, files and Map as lines 719-731 would.
C12_SweepTeardownIsDisconnect ==
  [][\A ok \in BOOLEAN : SweepClosed(ok) =>
        [clientState |-> clientState', files |-> files',
         connectionPools |-> connectionPools']
          = DisconnectTeardown(rKey, rClient, rCerts, ok)]_vars

\* the handlers that have called close() on client c and await it
C13_Closing(c) ==
  {t \in Tasks : pc[t] = "d_close" /\ cl[t] = c}
    \cup (IF rpc = "closing" /\ rClient = c THEN {"sweep"} ELSE {})
    \cup (IF spc = "closing" /\ sClient = c THEN {"SIGINT"} ELSE {})

\* the step in which a disconnect, the sweep or the SIGINT handler calls
\* close() on client c
C13_CallsClose(c) ==
  \/ \E t \in Tasks : pc[t] = "idle" /\ pc'[t] = "d_close" /\ cl'[t] = c
  \/ rpc' = "closing" /\ rClient' = c /\ <<rpc', rKey'>> # <<rpc, rKey>>
  \/ spc' = "closing" /\ sClient' = c /\ <<spc', sKey'>> # <<spc, sKey>>

\* C13: no backend connection is closed twice: close() is never called on
\* a client that is already closed or on which a call of close() by a
\* disconnect, the sweep or the SIGINT handler is still awaited.
C13_NoDoubleClose ==
  [][\A c \in Clients : C13_CallsClose(c) =>
        clientState[c] # "closed" /\ C13_Closing(c) = {}]_vars

\* what a teardown that held client c for key k must leave alone when the
\* Map holds another, newer pool under k: that pool and its files
C14_KeepsNewer(k, c) ==
  (has(k) /\ ClientOf(k) # c) =>
     /\ connectionPools'[k] = connectionPools[k]
     /\ \A x \in connectionPools[k].certFiles : <<k, x>> \in files => <<k, x>> \in files'

\* C14: no lost update on the Map: a disconnect or a sweep eviction that
\* awaited close() of a pool removes only that pool; a newer pool stored
\* under the same key during the await keeps its entry and its files.
C14_NoLostUpdate ==
  [][/\ \A t \in Tasks :
          (pc[t] = "d_close" /\ pc'[t] = "idle") => C14_KeepsNewer(key[t], cl[t])
     /\ (rpc = "closing" /\ <<rpc', rKey'>> # <<rpc, rKey>>)
          => C14_KeepsNewer(rKey, rClient)]_vars

\* C15: on SIGINT the process exits only after every pool in the Map has
\* had its backend connection closed and its credential files removed.
C15_ExitAfterTeardown ==
  spc = "exited" =>
    \A k \in Keys : has(k) =>
      /\ clientState[ClientOf(k)] = "closed"
      /\ \A x \in connectionPools[k].certFiles : <<k, x>> \notin files

\* what a teardown of the pool (certFiles cf) under k whose close()
\* succeeded must leave: none of the pool's files, no entry under k
C16_TornDown(k, cf) ==
  /\ \A x \in cf : <<k, x>> \notin files'
  /\ connectionPools'[k] = NoPool

\* C16: credential deletion tolerates missing files: a teardown (disconnect
\* or sweep eviction) whose close() succeeded deletes every credential file
\* of the pool that is on disk and removes the entry, also when one of the
\* pool's files is already missing.
C16_TeardownToleratesMissing ==
  [][/\ \A t \in Tasks :
          (pc[t] = "d_close" /\ pc'[t] = "idle" /\ ans'.status = 200)
            => C16_TornDown(key[t], certs[t])
     /\ (rpc = "closing" /\ clientState[rClient] = "open"
                         /\ clientState'[rClient] = "closed")
          => C16_TornDown(rKey, rCerts)]_vars

\* a connect for key k is in flight
C17_Connecting(k) ==
  \E t \in Tasks : key[t] = k /\ pc[t] \in {"c_probe", "c_create", "c_test"}

\* C17: credential files never outlive their pool: when no connect for a
\* key is in flight, a credential file of that key is on disk only if the
\* Map holds a pool under the key whose certFiles name it.
C17_NoOrphanFiles ==
  \A k \in Keys : ~C17_Connecting(k) =>
    \A x \in CertKinds :
      <<k, x>> \in files => (has(k) /\ x \in connectionPools[k].certFiles)

\* the positions in which a handler awaits a backend call on a pool
OpAwaits == {"q_op", "l_op", "g_op"}

\* the step in which a query, collections or debug-stores request for a
\* key that is not in the Map is received and answered
C18_AbsentStep ==
  /\ nReq' # nReq
  /\ ans'.handler \in {"query", "collections", "debug-stores"}
  /\ ~has(ans'.key)

\* C18: a query, a collection listing and a debug search set lastUsed of
\* the pool they use to the current time in the step that issues the
\* backend call; a request for a key that is not in the Map changes no
\* lastUsed.
C18_TouchBeforeCall ==
  [][/\ \A t \in Tasks :
          (pc[t] = "idle" /\ pc'[t] \in OpAwaits) =>
             /\ connectionPools'[key'[t]].client = cl'[t]
             /\ connectionPools'[key'[t]].lastUsed = now
     /\ C18_AbsentStep => connectionPools' = connectionPools]_vars

\* C18 witness: a handler awaits its backend call on a pool created
\* earlier, whose lastUsed is the current time.
C18_Witness ==
  \E t \in Tasks :
    /\ pc[t] \in OpAwaits /\ has(key[t]) /\ ClientOf(key[t]) = cl[t]
    /\ connectionPools[key[t]].createdAt < now
    /\ connectionPools[key[t]].lastUsed = now

\* the step in which the backend call of task t has failed and the catch
\* answers 500
C19_FailedCall(t) ==
  pc[t] \in OpAwaits /\ pc'[t] = "idle" /\ ans'.status = 500

\* the step in which a query is rejected (bad parameters, pipeline or
\* operation) before any backend call
C19_Rejected(t) ==
  /\ pc[t] = "idle" /\ nReq' # nReq /\ pc'[t] = "idle"
  /\ ans'.handler = "query" /\ ans'.status = 500

\* C19: a failed operation leaves the pool intact: the entry of the key
\* stays in the Map, its backend connection is not closed and its
\* credential files are not deleted.
C19_FailedOpKeepsPool ==
  [][\A t \in Tasks :
        /\ C19_FailedCall(t) =>
              UNCHANGED <<connectionPools, order, clientState, files>>
        /\ C19_Rejected(t) =>
              /\ connectionPools'[ans'.key].client = connectionPools[ans'.key].client
              /\ connectionPools'[ans'.key].certFiles = connectionPools[ans'.key].certFiles
              /\ connectionPools'[ans'.key] # NoPool
              /\ UNCHANGED <<order, clientState, files>>]_vars

\* C19 witness: a query was answered 500 and the pool it used is in the
\* Map, its connection open and its credential file on disk.
C19_Witness ==
  /\ ans.handler = "query" /\ ans.status = 500
  /\ has(ans.key)
  /\ clientState[ClientOf(ans.key)] = "open"
  /\ connectionPools[ans.key].certFiles = {"ca"}
  /\ <<ans.key, "ca">> \in files

\* the step in which task t receives a query for key k
C20_QueryStep(t, k) ==
  /\ pc[t] = "idle" /\ nReq' # nReq
  /\ \/ pc'[t] = "q_op" /\ key'[t] = k
     \/ pc'[t] = "idle" /\ ans'.handler = "query" /\ ans'.key = k

\* C20: a query for a key that is not in the Map, such as a key whose pool
\* was disconnected or evicted, issues no backend call and is answered 404
\* (400 when it lacks connectionId, collection or operation, which is
\* tested before the lookup).
C20_QueryAbsentNotFound ==
  [][\A t \in Tasks, k \in Keys :
        (C20_QueryStep(t, k) /\ ~has(k)) =>
           /\ pc'[t] = "idle"
           /\ ans'.status \in {400, 404}
           /\ UNCHANGED <<connectionPools, order, clientState, files>>]_vars

\* C20 witness: a query was answered 404 for a key whose pool a disconnect
\* or the sweep has closed and removed.
C20_Witness ==
  /\ ans.handler = "query" /\ ans.status = 404
  /\ ~has(ans.key)
  /\ \E c \in published : clientKey[c] = ans.key /\ clientState[c] = "closed"

\* C21: a connect that lacks connectionId, mongoUrl or database and a
\* query that lacks connectionId, collection or operation are answered 400
\* with nothing awaited, no lastUsed set and no credential file written,
\* also when the key named is in the Map.
C21_MissingFieldIs400 ==
  /\ (ret.fn = "ConnectEntry" /\ ConnectMissing(arg.body))
        => ret.val = Entry(400, "none", FALSE, {})
  /\ (ret.fn = "QueryEntry" /\ QueryMissing(arg.body))
        => ret.val = Entry(400, "none", FALSE, {})

\* C21 witness: a query that names a key with a pool in the Map and a
\* collection, but no operation, was answered 400.
C21_Witness ==
  /\ ret.fn = "QueryEntry" /\ ret.val.status = 400
  /\ arg.present /\ arg.body.connectionId # 0 /\ arg.body.collection
  /\ arg.body.operation = ""

\* the call returned is the prefix of a query that passed the validation of
\* line 378 and found its pool, for an aggregate
C22_Aggregate ==
  /\ ret.fn = "QueryEntry" /\ arg.present /\ ~QueryMissing(arg.body)
  /\ arg.body.operation = "aggregate"

\* C22: an aggregate whose resolved pipeline is not an Array (a plain
\* object, or a text that is not the JSON of an array) is answered with a
\* client error, 400, and nothing is awaited on the backend.
C22_BadPipelineIsClientError ==
  (C22_Aggregate /\ ResolvedPipeline(arg.body) \in {"object", "badtext"})
     => ret.val.status = 400 /\ ret.val.awaits = "none"

\* C23: an aggregate whose pipeline is the JSON text of an array is
\* dispatched: the handler awaits the backend call and has answered nothing.
C23_TextPipelineDispatched ==
  (C22_Aggregate /\ arg.body.pipeline = "text")
     => ret.val.status = 0 /\ ret.val.awaits = "q_op"

\* C30: an aggregate whose resolved pipeline is not an Array is answered
\* with a failure and no backend call is awaited.
C30_NonArrayPipelineRejected ==
  (C22_Aggregate /\ ResolvedPipeline(arg.body) # "array")
     => ret.val.status \in {400, 500} /\ ret.val.awaits = "none"

\* C30 witness: an aggregate with a plain object as pipeline, for a key
\* with a pool in the Map, was rejected.
C30_Witness ==
  /\ C22_Aggregate /\ arg.body.pipeline = "object"
  /\ ret.val.status = 500 /\ ret.val.awaits = "none"

\* C24: a failed query is classified timeout when its message speaks of a
\* timeout, connection when it speaks of the connection, auth when it
\* speaks of authentication, and unknown when it speaks of none of them.
C24_ClassifiedByMessage ==
  ret.fn = "errorType" =>
    /\ "timeout" \in arg.message => ret.val = "timeout"
    /\ "connection" \in arg.message => ret.val = "connection"
    /\ "authentication" \in arg.message => ret.val = "auth"
    /\ arg.message = {} => ret.val = "unknown"

\* C25: every answer sent carries a success field and a timestamp field.
C25_EveryAnswerStamped ==
  ans # NoAnswer =>
    {"success", "timestamp"} \subseteq ResponseFields(ans.handler, ans.status)

\* a place in a filter: the keys and array positions that lead to it
Steps == {[key |-> k] : k \in FilterKeys} \cup {[idx |-> i] : i \in 1..MaxLen}
MaxDepth == 3
Paths == UNION {[1..n -> Steps] : n \in 1..MaxDepth}

Nothing == [t |-> "nothing"]

\* the value at place p of v
RECURSIVE At(_, _)
At(v, p) ==
  IF p = <<>> THEN v
  ELSE LET h == Head(p) IN
       IF v.t = "obj" /\ DOMAIN h = {"key"} /\ h.key \in DOMAIN v.f
         THEN At(v.f[h.key], Tail(p))
       ELSE IF v.t = "arr" /\ DOMAIN h = {"idx"} /\ h.idx \in DOMAIN v.s
         THEN At(v.s[h.idx], Tail(p))
       ELSE Nothing

\* parseQuery, of either revision, has returned
ParseReturned == ret.fn \in {"parseQuery", "parseQueryDates"}

\* the key of the last step of place p, "" when it is an array position
LastKey(p) == IF DOMAIN p[Len(p)] = {"key"} THEN p[Len(p)].key ELSE ""

\* C26: wherever the filter holds the text ObjectId("<24 hex>") the result
\* holds the identifier, wherever it holds the text ISODate("<text>") the
\* result holds the timestamp, and a string that is neither of these, no
\* identifier and no timestamp text is the same string in the result.
C26_WrapperTextsCoerced ==
  ParseReturned =>
    \A p \in Paths :
      LET v == At(arg.query, p)
          w == At(ret.val.parsed, p)
      IN /\ v = Str("oidtext") => w = ObjectIdValue
         /\ v = Str("isodatetext") => w = DateValue
         /\ v \in {Str("plain"), Str("badiso")} => w = v

\* C27: a string of 24 hexadecimal characters under _id is the identifier
\* in the result wherever the key _id occurs in the filter, and under a key
\* that is not listed it is the same string in the result.
C27_ListedKeysCoercedAnywhere ==
  ParseReturned =>
    \A p \in Paths :
      LET v == At(arg.query, p)
          w == At(ret.val.parsed, p)
      IN v = Str("hex24") =>
           /\ LastKey(p) \in ObjectIdFields => w = ObjectIdValue
           /\ LastKey(p) \in FilterKeys \ ObjectIdFields => w = v

\* C28: after the parseQuery that converts dates, every valid ISO string of
\* the filter is a timestamp in the result, at any place, and every string
\* that matches the pattern without being a valid instant is the same
\* string.
C28_DatesConvertedAnywhere ==
  ret.fn = "parseQueryDates" =>
    \A p \in Paths :
      LET v == At(arg.query, p)
          w == At(ret.val.parsed, p)
      IN /\ v = Str("iso") => w = DateValue
         /\ v = Str("badiso") => w = v

\* C29: when parseQuery has returned, the caller's filter holds what it
\* held before the call.
C29_InputUnchanged ==
  ParseReturned => ret.val.query = arg.query

\* C31: an aggregate that carries neither pipeline nor query is dispatched
\* (with the empty pipeline): the handler awaits the backend call and has
\* answered nothing.
C31_EmptyAggregateDispatched ==
  (C22_Aggregate /\ arg.body.pipeline = "absent" /\ arg.body.query = "absent")
     => ret.val.status = 0 /\ ret.val.awaits = "q_op"

\* C32: for find, findOne, countDocuments and aggregate, every key the
\* caller supplies in options reaches the backend call with the caller's
\* value.
C32_OptionsForwarded ==
  (ret.fn = "BackendOptions"
      /\ arg.operation \in {"find", "findOne", "countDocuments", "aggregate"})
     => \A k \in OptionKeys :
          arg.options[k] = "caller" => ret.val[k] = "caller"

\* C33: a query with an operation the switch does not know, for a key with
\* a pool, is answered with a failure and awaits no backend call; all the
\* handler did to the pool is set lastUsed.
C33_UnknownOperationRejected ==
  (ret.fn = "QueryEntry" /\ arg.present /\ ~QueryMissing(arg.body)
      /\ arg.body.operation \notin Operations)
     => ret.val = Entry(500, "none", TRUE, {})

\* C33 witness: a mapReduce with a pipeline that is an Array was rejected.
C33_Witness ==
  /\ ret.fn = "QueryEntry" /\ arg.present /\ ~QueryMissing(arg.body)
  /\ arg.body.operation = "mapReduce" /\ arg.body.pipeline = "array"
  /\ ret.val.status = 500 /\ ret.val.awaits = "none"

\* C38: a find whose own backend call succeeds is answered 200, whatever
\* the size of the result and however the handler's other call settles.
C38_FindSuccessIs200 ==
  (ret.fn = "FindAnswer" /\ arg.first # "fails") => ret.val = 200

\* C34: while the sweep awaits the close of one pool, what it does next
\* leaves every pool under another key alone unless that pool has been idle
\* for more than the threshold at the time the sweep read: the pool, its
\* connection and its place in the Map stay, and the sweep does not go on
\* to close it.
C34_SweepSparesOthers ==
  [][\A ok \in BOOLEAN : SweepClosed(ok) =>
        \A k \in Keys :
          (has(k) /\ k # rKey
              /\ rNow - connectionPools[k].lastUsed <= maxIdleTime)
            => /\ connectionPools'[k] = connectionPools[k]
               /\ clientState'[ClientOf(k)] = clientState[ClientOf(k)]
               /\ rKey' # k]_vars

\* C34 witness: while the sweep awaits the close of a pool, a connect for
\* another key has just been answered 200 for a new pool, which is in the
\* Map with its connection open.
C34_Witness ==
  /\ rpc = "closing"
  /\ ans.handler = "connect" /\ ans.status = 200 /\ ~ans.reused
  /\ ans.key # rKey /\ has(ans.key)
  /\ clientState[ClientOf(ans.key)] = "open"
  /\ connectionPools[ans.key].createdAt >= rNow

\* a connect is between its first await and its answer
C35_ConnectInFlight == \E t \in Tasks : pc[t] \in {"c_probe", "c_create", "c_test"}

\* C35: when no connect is in flight, every backend connection that is open
\* is the client of a pool in the Map.
C35_NoOrphanConnections ==
  ~C35_ConnectInFlight =>
    \A c \in Clients :
      clientState[c] = "open" => \E k \in Keys : has(k) /\ ClientOf(k) = c

\* close() has been called on client c: it is closed, or a disconnect or
\* the sweep awaits its close()
C36_CloseInvoked(c) ==
  \/ clientState[c] = "closed"
  \/ \E t \in Tasks : pc[t] = "d_close" /\ cl[t] = c
  \/ rpc = "closing" /\ rClient = c

\* C36: the Map never holds a pool on whose client close() has been called.
C36_RegistryHoldsOpenOnly ==
  \A k \in Keys : has(k) => ~C36_CloseInvoked(ClientOf(k))

\* the handlers between their first await and their answer
InFlight == {t \in Tasks : pc[t] # "idle"}

\* C37: in every step, the number of requests whose handler ends (those
\* received plus those in flight before, less those in flight after) is 0
\* or 1, and an answer is sent in exactly the steps where it is 1: no
\* handler ends without an answer and none answers without ending.
C37_OneResponsePerRequest ==
  [][LET ended == (nReq' - nReq) + Cardinality(InFlight) - Cardinality(InFlight')
     IN /\ ended \in {0, 1}
        /\ (ended = 1) <=> (ans' # NoAnswer)]_vars

\* C37 witness: a connect stored its pool, its last ping failed and the
\* catch answered 500, while another handler is still in flight.
C37_Witness ==
  /\ ans.handler = "connect" /\ ans.status = 500
  /\ has(ans.key) /\ connectionPools[ans.key].createdAt = now
  /\ InFlight # {}

\* C39: in every step, each pool in the Map afterwards has createdAt <=
\* lastUsed, and a pool that was in the Map before keeps its createdAt and
\* has a lastUsed that is not earlier.
C39_TimestampsOrdered ==
  [][\A k \in Keys :
       connectionPools'[k] # NoPool =>
         /\ connectionPools'[k].createdAt <= connectionPools'[k].lastUsed
         /\ (has(k) /\ connectionPools'[k].client = ClientOf(k)) =>
               /\ connectionPools'[k].createdAt = connectionPools[k].createdAt
               /\ connectionPools'[k].lastUsed >= connectionPools[k].lastUsed]_vars

\* C39 witness: a pool was used after the clock had moved on from its
\* creation.
C39_Witness ==
  \E k \in Keys : has(k) /\ connectionPools[k].lastUsed > connectionPools[k].createdAt

====
